---------------------------- MODULE Spec2Model ----------------------------
(***************************************************************************)
(* A model of prime-finder (src/src/main.rs): the scan of a byte buffer    *)
(* for probable primes, the construction of the index of the products of   *)
(* the primes found, and the three matchers that look for the byte         *)
(* encodings of those products in the buffer.                              *)
(*                                                                         *)
(* An arbitrary-precision Integer (rug::Integer) is modelled by its        *)
(* minimal little-endian digit string: a sequence of bytes, least          *)
(* significant first, whose last byte is not zero; the empty sequence is   *)
(* zero.  No machine integer ever holds the value of a window, so a window *)
(* of 129 bytes is handled like one of a single byte.                      *)
(*                                                                         *)
(* A 64-bit polynomial over GF(2) (cdc::Polynom64) is modelled by the set  *)
(* of the exponents of its non-zero coefficients, that is by the set of    *)
(* the positions of the bits that are set in the u64.                      *)
(***************************************************************************)
EXTENDS Integers, Sequences, FiniteSets, TLC

(***************************************************************************)
(* Bounds of the model.                                                    *)
(***************************************************************************)
MaxLen == 3          \* longest unpadded buffer
MaxWorkers == 2      \* largest number of parallel workers of the scan

(***************************************************************************)
(* Constants of the program.                                               *)
(***************************************************************************)
PRIMES_WARNING_THRESHOLD == 1000
bit_size == 8
PrimalityReps == 20

Byte == 0..255

Min(a, b) == IF a <= b THEN a ELSE b

Range(s) == {s[i] : i \in 1..Len(s)}

Reverse(s) == [i \in 1..Len(s) |-> s[Len(s) + 1 - i]]

Pad(n) == [i \in 1..n |-> 0]

\* F(v), with v computed once whatever the number of its uses in F.
Bind(v, F(_)) == CHOOSE r \in {F(x) : x \in {v}} : TRUE

(***************************************************************************)
(* rug::Integer                                                            *)
(***************************************************************************)
\* The digit string without its most significant zero digits.
Trim(s) ==
    LET nz == {i \in 1..Len(s) : s[i] # 0}
        n == IF nz = {} THEN 0 ELSE CHOOSE i \in nz : \A j \in nz : j <= i
    IN SubSeq(s, 1, n)

\* Integer::from_digits(window, order)
from_digits(window, order) ==
    IF order = "Msf" THEN Trim(Reverse(window)) ELSE Trim(window)

\* Integer::to_digits::<u8>(order): the minimal encoding, empty for zero.
to_digits(n, order) ==
    IF order = "Msf" THEN Reverse(n) ELSE n

\* The value of a digit string short enough to fit a machine integer of TLC.
RECURSIVE ToNat(_)
ToNat(n) == IF n = <<>> THEN 0 ELSE n[1] + 256 * ToNat(Tail(n))

RECURSIVE FromNat(_)
FromNat(v) == IF v = 0 THEN <<>> ELSE <<v % 256>> \o FromNat(v \div 256)

\* a + b on digit strings, with carry c.
RECURSIVE AddC(_, _, _)
AddC(a, b, c) ==
    IF a = <<>> /\ b = <<>> THEN (IF c = 0 THEN <<>> ELSE <<c>>)
    ELSE LET x == IF a = <<>> THEN 0 ELSE a[1]
             y == IF b = <<>> THEN 0 ELSE b[1]
             s == x + y + c
         IN <<s % 256>> \o AddC(IF a = <<>> THEN a ELSE Tail(a),
                                IF b = <<>> THEN b ELSE Tail(b), s \div 256)

\* a * d for one digit d, with carry c.
RECURSIVE MulDigit(_, _, _)
MulDigit(a, d, c) ==
    IF a = <<>> THEN (IF c = 0 THEN <<>> ELSE <<c>>)
    ELSE LET s == a[1] * d + c
         IN <<s % 256>> \o MulDigit(Tail(a), d, s \div 256)

\* p * q (the operator * of rug::Integer), by long multiplication.
RECURSIVE Mul(_, _)
Mul(p, q) ==
    IF p = <<>> \/ q = <<>> THEN <<>>
    ELSE Trim(AddC(MulDigit(q, p[1], 0), <<0>> \o Mul(Tail(p), q), 0))

\* p <= q (the ordering of rug::Integer).
LessEq(p, q) ==
    \/ Len(p) < Len(q)
    \/ /\ Len(p) = Len(q)
       /\ \/ p = q
          \/ \E i \in 1..Len(p) :
                /\ p[i] < q[i]
                /\ \A j \in (i + 1)..Len(p) : p[j] = q[j]

\* Exact primality of a machine integer by trial division; digits is the
\* number of base-256 digits of v, so that every divisor up to the square
\* root of v is below 16^digits.
IsPrimeNat(v, digits) ==
    /\ v >= 2
    /\ \A d \in 2..Min(v - 1, 16 ^ digits) : v % d # 0

\* Integer::is_probably_prime(reps) /= IsPrime::No.  The test never rejects a
\* prime, and on the values of the model (a few significant bytes) it never
\* accepts a composite, whatever reps is: it is exact primality.  A multiple
\* of 256 is decided without its value.
is_probably_prime(n, reps) ==
    IF n = <<>> THEN FALSE
    ELSE IF n[1] % 2 = 0 THEN n = <<2>>
    ELSE IsPrimeNat(ToNat(n), Len(n))

(***************************************************************************)
(* cdc::Polynom64                                                          *)
(***************************************************************************)
\* The polynomial 0x3DA3358B4DC173 (cdc::MOD_POLYNOM), of degree 53.
MOD_POLYNOM ==
    {0, 1, 4, 5, 6, 8, 14, 15, 16, 18, 19, 22, 24, 25, 27, 31, 32, 34, 36,
     37, 40, 41, 45, 47, 48, 50, 51, 52, 53}

\* a ^ b
Xor(a, b) == (a \ b) \cup (b \ a)

\* a << k on a u64: the bits shifted past bit 63 are lost.
Shl(a, k) == {e + k : e \in {x \in a : x + k < 64}}

\* The bits of a byte.
ByteBits(b) == IF b = 0 THEN {} ELSE {i \in 0..7 : (b \div (2 ^ i)) % 2 = 1}

\* (p >> s) & 255
PolyByte(p, s) ==
    LET bit(i) == IF (s + i) \in p THEN 2 ^ i ELSE 0
    IN bit(0) + bit(1) + bit(2) + bit(3) + bit(4) + bit(5) + bit(6) + bit(7)

\* Polynom::degree: the position of the highest bit set, -1 for zero.
degree(p) == IF p = {} THEN -1 ELSE CHOOSE e \in p : \A f \in p : f <= e

\* Polynom::modulo
RECURSIVE modulo(_, _)
modulo(p, m) ==
    IF degree(p) >= degree(m)
    THEN modulo(Xor(p, Shl(m, degree(p) - degree(m))), m)
    ELSE p

(***************************************************************************)
(* cdc::Rabin64                                                            *)
(***************************************************************************)
window_size == 2 ^ bit_size
window_size_mask == window_size - 1
polynom_shift == degree(MOD_POLYNOM) - 8

\* x^(8 * k) modulo MOD_POLYNOM: k shifts by one byte, each reduced.
RECURSIVE ShiftBytes(_, _)
ShiftBytes(h, k) ==
    IF k = 0 THEN h
    ELSE IF k = 1 THEN modulo(Shl(h, 8), MOD_POLYNOM)
    ELSE LET Rest(half) == ShiftBytes(half, k - (k \div 2))
         IN Bind(ShiftBytes(h, k \div 2), Rest)

\* The polynomial of the byte 1 at the oldest place of a full window.
OutUnit == ShiftBytes({0}, window_size - 1)

\* Rabin64::calculate_out_table, entry b: b * x^(8 * (window_size - 1))
\* modulo MOD_POLYNOM.  The table's loop shifts b by window_size - 1 bytes,
\* reducing after each; shifting and reducing are linear over GF(2), so the
\* entry is the sum, over the bits i of b from bit i up, of the shifted unit.
RECURSIVE OutBits(_, _)
OutBits(b, i) ==
    IF i > 7 THEN {}
    ELSE Xor(IF i \in ByteBits(b) THEN modulo(Shl(OutUnit, i), MOD_POLYNOM) ELSE {},
             OutBits(b, i + 1))

calculate_out_table == [b \in Byte |-> OutBits(b, 0)]

out_table(b) == calculate_out_table[b]

\* Rabin64::calculate_mod_table, entry b.
calculate_mod_table ==
    [b \in Byte |-> LET p == Shl(ByteBits(b), degree(MOD_POLYNOM))
                    IN modulo(p, MOD_POLYNOM) \cup p]

mod_table(b) == calculate_mod_table[b]

\* Rabin64::new, and the state Rabin64::reset leaves.
Rabin64_new ==
    [window_data |-> [i \in 0..(window_size - 1) |-> 0],
     window_index |-> 0,
     hash |-> {}]

\* The byte put in the window and in the hash, and the window index moved:
\* the part that slide and reset_and_prefill_window share.
PutByte(r, h, byte) ==
    LET mod_index == PolyByte(h, polynom_shift)
    IN [window_data |-> [r.window_data EXCEPT ![r.window_index] = byte],
        window_index |-> (r.window_index + 1) % window_size,
        hash |-> Xor(Shl(h, 8) \cup ByteBits(byte), mod_table(mod_index))]

\* Rabin64::slide: the oldest byte leaves the hash, the new one enters.
slide(r, byte) ==
    PutByte(r, Xor(r.hash, out_table(r.window_data[r.window_index])), byte)

\* The hash of a key as finder_rabin_karp computes it: reset, then slide
\* every byte of the key.
RECURSIVE SlideAll(_, _, _)
SlideAll(r, s, i) ==
    IF i > Len(s) THEN r ELSE SlideAll(slide(r, s[i]), s, i + 1)

KeyHash(k) == SlideAll(Rabin64_new, k, 1).hash

(***************************************************************************)
(* cdc::SeparatorIter                                                      *)
(***************************************************************************)
\* The iterator after custom_new: the hasher, the index (bytes consumed),
\* the bytes reset_and_prefill_window still has to read, and the separators
\* (Separator {index, hash}) yielded so far.
SeparatorIter_custom_new ==
    [rabin |-> Rabin64_new, index |-> 0, prefill |-> window_size - 1,
     seps |-> <<>>]

\* One byte of the input consumed, by reset_and_prefill_window (which takes
\* no byte out of the hash and, after its last byte, clears the place of the
\* window it did not write) or by SeparatorIter::next (which slides, tests
\* the predicate and on a hit yields the separator and starts a prefill).
StepByte(st, b, hashes) ==
    IF st.prefill > 0
    THEN LET Prefilled(r) ==
                 [st EXCEPT !.rabin = IF st.prefill = 1
                                      THEN [r EXCEPT !.window_data[r.window_index] = 0]
                                      ELSE r,
                            !.index = @ + 1,
                            !.prefill = @ - 1]
         IN Bind(PutByte(st.rabin, st.rabin.hash, b), Prefilled)
    ELSE LET Slid(r) ==
                 IF r.hash \in hashes
                 THEN [st EXCEPT !.rabin = [r EXCEPT !.hash = {}],
                                 !.index = @ + 1,
                                 !.prefill = window_size - 1,
                                 !.seps = Append(@, [index |-> st.index + 1,
                                                    hash |-> r.hash])]
                 ELSE [st EXCEPT !.rabin = r, !.index = @ + 1]
         IN Bind(slide(st.rabin, b), Slid)

\* The bytes buf[lo..hi] consumed in order: the first half, then the second.
RECURSIVE ConsumeBytes(_, _, _, _, _)
ConsumeBytes(st, buf, lo, hi, hashes) ==
    IF lo > hi THEN st
    ELSE IF lo = hi THEN StepByte(st, buf[lo], hashes)
    ELSE LET mid == (lo + hi) \div 2
             Rest(first) == ConsumeBytes(first, buf, mid + 1, hi, hashes)
         IN Bind(ConsumeBytes(st, buf, lo, mid, hashes), Rest)

\* The separators SeparatorIter yields on buf, in order, with the predicate
\* "the hash is one of hashes".
Separators(buf, hashes) ==
    ConsumeBytes(SeparatorIter_custom_new, buf, 1, Len(buf), hashes).seps

(***************************************************************************)
(* The stages of main and the three matchers, as functions of their inputs *)
(***************************************************************************)
\* slice.windows(size) and slice.par_windows(size): the offsets of the
\* windows, none when the slice is shorter than size.
WindowOffsets(buf, size) == 0..(Len(buf) - size)

WindowAt(buf, offset, size) == SubSeq(buf, offset + 1, offset + size)

\* sub_window.iter().all(|&b| b == 0) for some sub_window of
\* window.windows(null_filter_length).
HasNullRun(window, nfl) ==
    \E j \in WindowOffsets(window, nfl) :
        \A k \in 1..nfl : window[j + k] = 0

\* The filter with the length of the run off by one.
NullFilterOffByOne(window, nfl) == ~HasNullRun(window, nfl + 1)

\* The filter of the scan: the window is kept.
NullFilter(window, nfl) == ~HasNullRun(window, nfl)

ByteOrders == <<"Msf", "Lsf">>

\* What one window yields after the filter, the flat_map to its two Integers
\* and the filter_map by the primality test: the items <<offset, order,
\* number>> that reach the collection.
WindowItems(buf, offset, ps, nfl) ==
    LET window == WindowAt(buf, offset, ps)
    IN IF NullFilter(window, nfl)
       THEN {it \in {<<offset, o, from_digits(window, ByteOrders[o])>> : o \in {1, 2}} :
                is_probably_prime(it[3], PrimalityReps)}
       ELSE {}

\* A split that drops the last window of every chunk but the last.
ChunkOffsetsGap(buf, ps, n, c) ==
    LET count == Cardinality(WindowOffsets(buf, ps))
    IN {i \in WindowOffsets(buf, ps) :
          /\ ((c - 1) * count) \div n <= i
          /\ i < ((c * count) \div n) - (IF c < n THEN 1 ELSE 0)}

\* The windows of the scan split in n contiguous chunks, one per worker:
\* the offsets of chunk c.
ChunkOffsets(buf, ps, n, c) ==
    LET count == Cardinality(WindowOffsets(buf, ps))
    IN {i \in WindowOffsets(buf, ps) :
          ((c - 1) * count) \div n <= i /\ i < (c * count) \div n}

\* The items one worker produces from its chunk.
ChunkItems(buf, ps, nfl, n, c) ==
    UNION {WindowItems(buf, i, ps, nfl) : i \in ChunkOffsets(buf, ps, n, c)}

\* collect::<HashSet<_>>(): the numbers of the items, each once.
CollectPrimes(items) == {it[3] : it \in items}

\* The iteration orders of a HashSet: every arrangement of its elements.
RECURSIVE Perms(_)
Perms(S) ==
    IF S = {} THEN {<<>>}
    ELSE UNION {{<<x>> \o rest : rest \in Perms(S \ {x})} : x \in S}

\* primes.iter().cartesian_product(primes.iter()) for the iteration order
\* ord of the set.
pq_tuples(ord) ==
    LET n == Len(ord)
    IN [t \in 1..(n * n) |-> <<ord[((t - 1) \div n) + 1], ord[((t - 1) % n) + 1]>>]

\* .filter(|(p, q)| p <= q)
KeepPair(pq) == LessEq(pq[1], pq[2])

\* The entries the flat_map makes of the pairs kept: for each pair the Lsf
\* encoding of p * q, then its Msf encoding, each with the pair.
pqn_entries(ord) ==
    LET pairs == SelectSeq(pq_tuples(ord), KeepPair)
    IN [e \in 1..(2 * Len(pairs)) |->
          LET pq == pairs[(e + 1) \div 2]
          IN <<to_digits(Mul(pq[1], pq[2]), IF e % 2 = 1 THEN "Lsf" ELSE "Msf"), pq>>]

\* collect::<HashMap<_, _>>(): the entries inserted in order, a later entry
\* replacing an earlier one of the same key.
CollectMap(entries) ==
    [k \in {entries[e][1] : e \in 1..Len(entries)} |->
        LET last == CHOOSE e \in 1..Len(entries) :
                        /\ entries[e][1] = k
                        /\ \A f \in (e + 1)..Len(entries) : entries[f][1] # k
        IN entries[last][2]]

BuildIndex(ord) == CollectMap(pqn_entries(ord))

EmptyMap == [k \in {} |-> <<>>]

\* a - b on usize.  With overflow checks the subtraction panics when b > a;
\* without them it wraps: the value is then a - b + 2^64, kept here as
\* a - b with the flag wrapped.
usize_sub(a, b) == [wrapped |-> a < b, value |-> a - b]

\* The offsets in increasing order.
OffsetSeq(buf, size) == [i \in 1..(Len(buf) - size + 1) |-> i - 1]

\* finder_sliding_window: every window of 2 * prime_size bytes looked up in
\* the index, the pairs of those found collected in the order of the windows.
finder_sliding_window(pqn, buf, ps) ==
    LET IsKey(i) == WindowAt(buf, i, 2 * ps) \in DOMAIN pqn
        hits == SelectSeq(OffsetSeq(buf, 2 * ps), IsKey)
    IN [h \in 1..Len(hits) |-> pqn[WindowAt(buf, hits[h], 2 * ps)]]

\* AhoCorasick::find_iter (standard match semantics, matches that do not
\* overlap): from start, the match that ends first; among the patterns that
\* end there, the longest; the search goes on after its end.
PatternsEndingAt(patterns, buf, start, end) ==
    {k \in patterns : Len(k) <= end - start /\ SubSeq(buf, end - Len(k) + 1, end) = k}

RECURSIVE find_iter(_, _, _)
find_iter(patterns, buf, start) ==
    LET ends == {e \in (start + 1)..Len(buf) : PatternsEndingAt(patterns, buf, start, e) # {}}
    IN IF ends = {} THEN <<>>
       ELSE LET end == CHOOSE e \in ends : \A f \in ends : e <= f
                found == PatternsEndingAt(patterns, buf, start, end)
                k == CHOOSE x \in found : \A y \in found : Len(y) <= Len(x)
            IN <<[start |-> end - Len(k), end |-> end]>> \o find_iter(patterns, buf, end)

\* finder_aho_corasick: the text of every match looked up in the index.
finder_aho_corasick(pqn, buf, ps) ==
    LET ms == find_iter(DOMAIN pqn, buf, 0)
        IsKey(m) == SubSeq(buf, m.start + 1, m.end) \in DOMAIN pqn
        hits == SelectSeq(ms, IsKey)
    IN [h \in 1..Len(hits) |-> pqn[SubSeq(buf, hits[h].start + 1, hits[h].end)]]

\* rabin_pqn_tuples: the keys of the fingerprint table (the only part of it
\* that is read, by contains_key).
rabin_pqn_tuples(pqn) == {KeyHash(k) : k \in DOMAIN pqn}

\* The slice file_contents[index - 2 * prime_size .. index] of a separator
\* looked up in the index.
SliceOf(buf, index, ps) == SubSeq(buf, index - 2 * ps + 1, index)

\* The separators not verified: each yields the pair of the key that has its
\* fingerprint.
LookupSeparatorsUnverified(pqn, buf, ps, seps) ==
    [panic |-> \E s \in 1..Len(seps) : usize_sub(seps[s].index, 2 * ps).wrapped,
     separators |-> seps,
     found |-> [h \in 1..Len(seps) |->
                  pqn[CHOOSE k \in DOMAIN pqn : KeyHash(k) = seps[h].hash]]]

\* What finder_rabin_karp makes of the separators seps, which the flat_map
\* takes one by one.  The subtraction index - 2 * prime_size overflows when
\* the index is smaller: a panic with overflow checks, and without them a
\* slice whose start is past its end, a panic too.  separators are those
\* taken, up to the one that panics.
LookupSeparators(pqn, buf, ps, seps) ==
    LET Underflows(s) == usize_sub(seps[s].index, 2 * ps).wrapped
        bad == {s \in 1..Len(seps) : Underflows(s)}
        IsKey(sep) == SliceOf(buf, sep.index, ps) \in DOMAIN pqn
        hits == SelectSeq(seps, IsKey)
    IN IF bad # {}
       THEN [panic |-> TRUE,
             separators |-> SubSeq(seps, 1, CHOOSE s \in bad : \A t \in bad : s <= t),
             found |-> <<>>]
       ELSE [panic |-> FALSE, separators |-> seps,
             found |-> [h \in 1..Len(hits) |-> pqn[SliceOf(buf, hits[h].index, ps)]]]

\* finder_rabin_karp: the separators whose hash is a fingerprint of a key;
\* for each, the slice of 2 * prime_size bytes that ends at its index looked
\* up in the index.
finder_rabin_karp(pqn, buf, ps) ==
    LET Scan(hashes) == Separators(buf, hashes)
        Lookup(seps) == LookupSeparators(pqn, buf, ps, seps)
    IN Bind(Bind(rabin_pqn_tuples(pqn), Scan), Lookup)

(***************************************************************************)
(* The inputs of the model                                                 *)
(***************************************************************************)
\* The bytes of the short buffers: the zero byte, two primes whose product
\* 11 * 29 = 0x013F is the byte reversal of the square 127 * 127 = 0x3F01
\* of the third, and the two bytes of these products.
SmallBytes == {0, 1, 11, 29, 63, 127}

RECURSIVE SeqsUpTo(_, _)
SeqsUpTo(S, n) ==
    IF n = 0 THEN {<<>>}
    ELSE SeqsUpTo(S, n - 1) \cup
         {Append(s, x) : s \in {t \in SeqsUpTo(S, n - 1) : Len(t) = n - 1}, x \in S}

SmallBuffers == SeqsUpTo(SmallBytes, MaxLen)

\* The smallest prime size whose products are wider than the window of the
\* rolling hash.
LargePrimeSize == (window_size \div 2) + 1

\* body at the end of a run of zero bytes that fills, with it, exactly one
\* window of the rolling hash.
Frame(body) == Pad(window_size - Len(body)) \o body

\* The big-endian bytes of a polynomial of at most 7 bytes.
PolyBytes(p) == [i \in 1..7 |-> PolyByte(p, 8 * (7 - i))]

\* A body whose hash is the hash of the one-byte key <<b>> although b is not
\* one of its bytes, and that holds no prime byte: the polynomial of the key
\* plus the multiple x^2 + x + 1 of the modulus.
Colliding(b) ==
    PolyBytes(Xor(ByteBits(b),
                  Xor(Shl(MOD_POLYNOM, 2), Xor(Shl(MOD_POLYNOM, 1), MOD_POLYNOM))))

\* 121 = 11 * 11 is a key of one byte; <<63, 1>> and <<1, 63>> are the keys
\* of 127 * 127; <<117, 5>> is a key of 11 * 127 = 0x0575.
ShortBodies == {<<121>>, <<63, 1>>, <<1, 63>>}
Edges == {<<>>, <<11>>, <<127>>}

\* A framed body between two edges; two framed bodies and an edge.
OneFrame(heads, bodies, tails) ==
    {h \o Frame(b) \o t : h \in heads, b \in bodies, t \in tails}

TwoFrames ==
    {Frame(b) \o Frame(c) \o t : b \in {<<63, 1>>, <<121>>, Colliding(121)},
                                 c \in {<<63, 1>>, <<1, 63>>, <<117, 5>>},
                                 t \in {<<127>>, <<11, 127>>}}

\* The windows of one byte see every padded buffer; the windows of
\* LargePrimeSize bytes those whose values have at most three significant
\* bytes besides a power of 256.
Inputs ==
    [file_contents : SmallBuffers, prime_size : {1, 2}, null_filter_length : {1, 2}]
    \cup [file_contents : OneFrame(Edges, ShortBodies \cup {Colliding(121)}, Edges)
                          \cup TwoFrames,
          prime_size : {1}, null_filter_length : {1}]
    \cup [file_contents : OneFrame({<<>>, <<11>>}, ShortBodies, {<<>>, <<11>>}),
          prime_size : {LargePrimeSize}, null_filter_length : {LargePrimeSize}]

(***************************************************************************)
(* The state of a run                                                      *)
(***************************************************************************)
VARIABLES
    file_contents,       \* the bytes read from the file
    prime_size,          \* -s
    null_filter_length,  \* -f
    dump_primes,         \* -p
    workers,             \* the number of chunks the scan is split in
    pc,                  \* the stage main is at
    bar_size,            \* file_contents.len() - prime_size, as main computes it
    todo,                \* the chunks of the scan not yet processed
    items,               \* the items each processed chunk produced
    primes,              \* the HashSet of the probable primes
    warned,              \* the warning about the number of primes was logged
    pqn_tuples,          \* the index: encoding of p * q -> (p, q)
    separators,          \* the separators the matcher took from SeparatorIter
    valid_primes,        \* what the matcher returned
    output,              \* the lines printed
    sw_result,           \* what finder_sliding_window returns on the same index
    ac_result            \* what finder_aho_corasick returns on the same index

inputs == <<file_contents, prime_size, null_filter_length, dump_primes, workers>>
others == <<sw_result, ac_result>>
matched == <<separators, valid_primes>>
vars == <<file_contents, prime_size, null_filter_length, dump_primes, workers, pc,
          bar_size, todo, items, primes, warned, pqn_tuples, separators,
          valid_primes, output, sw_result, ac_result>>

NotRun == [ran |-> FALSE, found |-> <<>>]

Init ==
    /\ \E in \in Inputs :
          /\ file_contents = in.file_contents
          /\ prime_size = in.prime_size
          /\ null_filter_length = in.null_filter_length
    /\ dump_primes \in BOOLEAN
    /\ workers \in 1..MaxWorkers
    /\ pc = "start"
    /\ bar_size = [wrapped |-> FALSE, value |-> 0]
    /\ todo = {}
    /\ items = [c \in {} |-> {}]
    /\ primes = {}
    /\ warned = FALSE
    /\ pqn_tuples = EmptyMap
    /\ separators = <<>>
    /\ valid_primes = <<>>
    /\ output = <<>>
    /\ sw_result = NotRun
    /\ ac_result = NotRun

\* main, line 153: bar_size.  With overflow checks a prime_size greater than
\* the length of the buffer panics ("attempt to subtract with overflow").
BarSizePanics ==
    /\ pc = "start"
    /\ usize_sub(Len(file_contents), prime_size).wrapped
    /\ pc' = "panic"
    /\ UNCHANGED <<inputs, bar_size, todo, items, primes, warned, pqn_tuples,
                   matched, output, others>>

\* main, line 153: bar_size, the subtraction done (wrapping when the build
\* has no overflow checks); the scan starts, split in chunks.
ComputeBarSize ==
    /\ pc = "start"
    /\ bar_size' = usize_sub(Len(file_contents), prime_size)
    /\ todo' = 1..workers
    /\ pc' = "scan"
    /\ UNCHANGED <<inputs, items, primes, warned, pqn_tuples, matched, output,
                   others>>

\* main, lines 159-178: one worker scans its chunk of the windows.
ScanChunk(c) ==
    /\ pc = "scan"
    /\ c \in todo
    /\ todo' = todo \ {c}
    /\ items' = [d \in DOMAIN items \cup {c} |->
                    IF d = c
                    THEN ChunkItems(file_contents, prime_size, null_filter_length,
                                    workers, c)
                    ELSE items[d]]
    /\ UNCHANGED <<inputs, pc, bar_size, primes, warned, pqn_tuples, matched,
                   output, others>>

\* main, lines 181-187: the items of all chunks collected in the HashSet, and
\* the warning.
Collect ==
    /\ pc = "scan"
    /\ todo = {}
    /\ primes' = CollectPrimes(UNION {items[c] : c \in DOMAIN items})
    /\ warned' = (Cardinality(primes') > PRIMES_WARNING_THRESHOLD)
    /\ pc' = "collected"
    /\ UNCHANGED <<inputs, bar_size, todo, items, pqn_tuples, matched, output,
                   others>>

\* main, lines 189-193: the primes printed, in the iteration order of the set.
DumpPrimes ==
    /\ pc = "collected"
    /\ dump_primes
    /\ \E ord \in Perms(primes) : output' = ord
    /\ pc' = "done"
    /\ UNCHANGED <<inputs, bar_size, todo, items, primes, warned, pqn_tuples,
                   matched, others>>

\* main, lines 195-211: the index built, in some iteration order of the set.
ConstructIndex ==
    /\ pc = "collected"
    /\ ~dump_primes
    /\ \E ord \in Perms(primes) : pqn_tuples' = BuildIndex(ord)
    /\ pc' = "find"
    /\ UNCHANGED <<inputs, bar_size, todo, items, primes, warned, matched,
                   output, others>>

\* main, line 215: finder_rabin_karp, the matcher main runs.  Its line 67
\* subtracts like line 153, with the same outcome.
FindRabinKarp ==
    /\ pc = "find"
    /\ \E r \in {finder_rabin_karp(pqn_tuples, file_contents, prime_size)} :
          /\ separators' = r.separators
          /\ valid_primes' = r.found
          /\ pc' = IF r.panic THEN "panic" ELSE "report"
    /\ UNCHANGED <<inputs, bar_size, todo, items, primes, warned, pqn_tuples,
                   output, others>>

\* main, lines 217-221: every pair returned printed with its product.
Report ==
    /\ pc = "report"
    /\ output' = [i \in 1..Len(valid_primes) |->
                     <<valid_primes[i][1], valid_primes[i][2],
                       Mul(valid_primes[i][1], valid_primes[i][2])>>]
    /\ pc' = "done"
    /\ UNCHANGED <<inputs, bar_size, todo, items, primes, warned, pqn_tuples,
                   matched, others>>

\* main, line 213 (the alternative matcher): finder_sliding_window on the
\* index main built.
FindSlidingWindow ==
    /\ pc = "find"
    /\ ~sw_result.ran
    /\ sw_result' = [ran |-> TRUE,
                     found |-> finder_sliding_window(pqn_tuples, file_contents,
                                                     prime_size)]
    /\ UNCHANGED <<inputs, pc, bar_size, todo, items, primes, warned, pqn_tuples,
                   matched, output, ac_result>>

\* main, line 214 (the alternative matcher): finder_aho_corasick on the index
\* main built.
FindAhoCorasick ==
    /\ pc = "find"
    /\ ~ac_result.ran
    /\ ac_result' = [ran |-> TRUE,
                     found |-> finder_aho_corasick(pqn_tuples, file_contents,
                                                   prime_size)]
    /\ UNCHANGED <<inputs, pc, bar_size, todo, items, primes, warned, pqn_tuples,
                   matched, output, sw_result>>

Scan == \E c \in 1..MaxWorkers : ScanChunk(c)

\* The program as it is: main with finder_rabin_karp.
Next ==
    \/ BarSizePanics
    \/ ComputeBarSize
    \/ Scan
    \/ Collect
    \/ DumpPrimes
    \/ ConstructIndex
    \/ FindRabinKarp
    \/ Report

Spec == Init /\ [][Next]_vars

\* The three matchers run on the same buffer and the same index.
NextMatchers ==
    \/ Next
    \/ FindSlidingWindow
    \/ FindAhoCorasick

MatcherSpec == Init /\ [][NextMatchers]_vars
(***************************************************************************)
(* The properties                                                          *)
(***************************************************************************)
\* k is a contiguous slice of buf.
Occurs(k, buf) ==
    \E i \in 0..(Len(buf) - Len(k)) : SubSeq(buf, i + 1, i + Len(k)) = k

\* The Lsf and the Msf minimal encoding of the product of a pair.
Encodings(pq) ==
    {to_digits(Mul(pq[1], pq[2]), "Lsf"), to_digits(Mul(pq[1], pq[2]), "Msf")}

\* w holds n or more consecutive zero bytes.
ContainsZeroRun(w, n) ==
    \E j \in 1..(Len(w) - n + 1) : \A k \in j..(j + n - 1) : w[k] = 0

\* The two integer values of the window at offset i.
WindowValues(i) ==
    {from_digits(WindowAt(file_contents, i, prime_size), "Msf"),
     from_digits(WindowAt(file_contents, i, prime_size), "Lsf")}

\* The primes a scan of the windows one after the other finds.
SequentialPrimes ==
    UNION {IF ContainsZeroRun(WindowAt(file_contents, i, prime_size), null_filter_length)
           THEN {}
           ELSE {v \in WindowValues(i) : is_probably_prime(v, PrimalityReps)} :
           i \in 0..(Len(file_contents) - prime_size)}

Returned == pc \in {"report", "done"} /\ ~dump_primes
IndexBuilt == pc \in {"find", "report"}

\* C1: on the same buffer and the same index, finder_sliding_window,
\* finder_aho_corasick and finder_rabin_karp return the same set of pairs.
MatchersAgree ==
    (Returned /\ sw_result.ran /\ ac_result.ran)
        => /\ Range(valid_primes) = Range(sw_result.found)
           /\ Range(sw_result.found) = Range(ac_result.found)

\* C2: every pair of the index whose product has its Lsf or its Msf encoding
\* somewhere in the buffer is among the pairs finder_rabin_karp returns.
RabinKarpComplete ==
    Returned =>
        \A k \in DOMAIN pqn_tuples :
            (\E e \in Encodings(pqn_tuples[k]) : Occurs(e, file_contents))
                => pqn_tuples[k] \in Range(valid_primes)

\* C3: no pair is twice among the matches the matcher returns, nor among the
\* lines main prints for them.
MatchesDeduplicated ==
    /\ \A i, j \in DOMAIN valid_primes :
          i # j => valid_primes[i] # valid_primes[j]
    /\ (pc = "done" /\ ~dump_primes) =>
          \A i, j \in DOMAIN output : i # j => output[i] # output[j]

\* C4: every pair finder_rabin_karp returns has the Lsf or the Msf encoding
\* of its product equal to a slice of the buffer, and a separator whose slice
\* is not a key of the index yields no result: the results are as many as
\* the separators whose slice is a key.
RabinKarpSound ==
    Returned =>
        /\ \A i \in DOMAIN valid_primes :
              \E e \in Encodings(valid_primes[i]) : Occurs(e, file_contents)
        /\ Len(valid_primes) =
              Cardinality({s \in DOMAIN separators :
                              SliceOf(file_contents, separators[s].index, prime_size)
                                  \in DOMAIN pqn_tuples})

\* A run in which finder_rabin_karp returned a pair and dropped a separator
\* whose hash is the fingerprint of a key that is nowhere in the buffer.
RabinKarpCollisionDropped ==
    /\ pc = "report"
    /\ valid_primes # <<>>
    /\ \E s \in DOMAIN separators :
          /\ SliceOf(file_contents, separators[s].index, prime_size)
                \notin DOMAIN pqn_tuples
          /\ \E k \in DOMAIN pqn_tuples :
                KeyHash(k) = separators[s].hash /\ ~Occurs(k, file_contents)

\* C5: with prime_size greater than the length of the buffer, the subtraction
\* of line 153 never gives a wrapped value and the run never goes on to the
\* scan: it stops where it started, with an error.
OversizedPrimeSizeRejected ==
    prime_size > Len(file_contents)
        => ~bar_size.wrapped /\ pc \in {"start", "panic"}

\* C6: no prime of the set is the Msf or the Lsf value of a window of
\* prime_size bytes that holds null_filter_length or more consecutive zero
\* bytes.
NullRunExcluded ==
    \A p \in primes :
        \A i \in 0..(Len(file_contents) - prime_size) :
            ContainsZeroRun(WindowAt(file_contents, i, prime_size), null_filter_length)
                => p \notin WindowValues(i)

\* The set collected, not empty, from a buffer that has a window with a run
\* of zero bytes and a prime value.
NullRunWindowDropped ==
    /\ pc = "collected"
    /\ primes # {}
    /\ \E i \in 0..(Len(file_contents) - prime_size) :
          /\ ContainsZeroRun(WindowAt(file_contents, i, prime_size), null_filter_length)
          /\ \E v \in WindowValues(i) : is_probably_prime(v, PrimalityReps)

\* C7: every pair that is a value of the index, and every match returned,
\* has P <= Q; the matches never hold both (P, Q) and (Q, P) for P # Q; and
\* the self-pairs are included: for every prime P of the set, (P, P) is a
\* value of the index built.
CanonicalPairs ==
    /\ \A k \in DOMAIN pqn_tuples : ToNat(pqn_tuples[k][1]) <= ToNat(pqn_tuples[k][2])
    /\ \A i \in DOMAIN valid_primes : ToNat(valid_primes[i][1]) <= ToNat(valid_primes[i][2])
    /\ \A i, j \in DOMAIN valid_primes :
          valid_primes[i][1] # valid_primes[i][2]
              => valid_primes[j] # <<valid_primes[i][2], valid_primes[i][1]>>
    /\ IndexBuilt =>
          \A p \in primes : \E k \in DOMAIN pqn_tuples : pqn_tuples[k] = <<p, p>>

\* C8: the set of primes collected is the set a scan of the windows one
\* after the other finds, whatever the number of workers and the order in
\* which they scanned their chunks.
ScanDeterministic ==
    pc \in {"collected", "find", "report", "done"} => primes = SequentialPrimes

\* The set collected from the chunks of several workers, each of which
\* found a prime.
ParallelScanCollected ==
    /\ pc = "collected"
    /\ workers > 1
    /\ \A c \in 1..workers : items[c] # {}

\* C9: in the index built, both encodings of P * Q are keys for every pair
\* P <= Q of primes of the set, and both map to (P, Q).
IndexCoversBothEncodings ==
    IndexBuilt =>
        \A p, q \in primes :
            ToNat(p) <= ToNat(q) =>
                \A k \in Encodings(<<p, q>>) :
                    k \in DOMAIN pqn_tuples /\ pqn_tuples[k] = <<p, q>>

\* C10: every separator finder_rabin_karp takes has its index at least
\* 2 * prime_size and at most the length of the buffer, and the matcher does
\* not panic on one.
SeparatorSliceInBounds ==
    /\ \A s \in DOMAIN separators :
          /\ separators[s].index >= 2 * prime_size
          /\ separators[s].index <= Len(file_contents)
    /\ ~(pc = "panic" /\ separators # <<>>)
=============================================================================
